---- MODULE Spec2Model ----
(***************************************************************************)
(* A model of the valuation formulas of src/valuations.py:                 *)
(* discount_cash_flow, ben_graham_formula, div_discount_model and          *)
(* gordon_growth_model.                                                    *)
(*                                                                         *)
(* Numbers.  The code computes in floating point.  Here a number is an     *)
(* exact fraction <<n, d>> in lowest terms with d >= 0; the three          *)
(* non-finite values numpy produces are the fractions with d = 0:          *)
(* <<1, 0>> is inf, <<-1, 0>> is -inf and <<0, 0>> is nan.  Rounding is    *)
(* not modelled.                                                           *)
(*                                                                         *)
(* Two kinds of division occur in the code.  A numpy scalar or array       *)
(* divided by zero yields inf or nan (with a warning, not an error):       *)
(* RDiv.  A plain Python number divided by zero raises ZeroDivisionError:  *)
(* the actions that model such a division carry the guard.                 *)
(*                                                                         *)
(* The def line of div_discount_model (line 70) puts parameters without    *)
(* a default after parameters with one, and ben_graham_formula reads the   *)
(* name safe, which nothing defines.  The model follows each function's    *)
(* body with its parameters taken by name.                                 *)
(***************************************************************************)
EXTENDS Integers, Sequences, FiniteSets

VARIABLES pc, args, fcf, cagr, d, val1numbers, val2numbers, i,
          proj, proj2, projtotal, noise, rng, adjusted_eps, ret, err

vars == <<pc, args, fcf, cagr, d, val1numbers, val2numbers, i,
          proj, proj2, projtotal, noise, rng, adjusted_eps, ret, err>>

None == "None"

\* ------------------------------------------------------------------------
\* Bounds of the model
\* ------------------------------------------------------------------------

\* the longest history (fcf or eps) tried
MaxLen == 11

\* the longest dividend growth period tried
MaxPeriod == 2

\* ------------------------------------------------------------------------
\* Constants of the program
\* ------------------------------------------------------------------------

\* for i in xrange(0,100); np.zeros(shape=100)
NumTrials == 100

\* np.arange(1,11), size=10: years of one projection phase
Years == 10

\* fcf[9]: the position the first projection starts from (0-based)
CurIdx == 9

\* eps[10]: the position read as the current EPS (0-based)
EpsIdx == 10

\* ------------------------------------------------------------------------
\* Arithmetic
\* ------------------------------------------------------------------------

Abs(x) == IF x < 0 THEN -x ELSE x

Sgn(x) == IF x < 0 THEN -1 ELSE IF x > 0 THEN 1 ELSE 0

RECURSIVE GCD(_, _)
GCD(a, b) == IF b = 0 THEN a ELSE GCD(b, a % b)

\* the fraction n/d0 in lowest terms, denominator >= 0
Norm(n, d0) ==
    IF d0 = 0 THEN <<Sgn(n), 0>>
    ELSE LET g == GCD(Abs(n), Abs(d0))
             s == Sgn(d0)
         IN  <<(s * n) \div g, Abs(d0) \div g>>

Num(k) == <<k, 1>>

NaN == <<0, 0>>

IsFinite(a) == a[2] # 0

RAdd(a, b) ==
    IF a[2] = 0 /\ b[2] = 0 THEN (IF a[1] = b[1] THEN a ELSE NaN)
    ELSE IF a[2] = 0 THEN a
    ELSE IF b[2] = 0 THEN b
    ELSE IF a[2] = b[2] THEN Norm(a[1] + b[1], a[2])
    ELSE IF a[2] % b[2] = 0 THEN Norm(a[1] + b[1] * (a[2] \div b[2]), a[2])
    ELSE IF b[2] % a[2] = 0 THEN Norm(a[1] * (b[2] \div a[2]) + b[1], b[2])
    ELSE LET g == GCD(a[2], b[2])
             l == (a[2] \div g) * b[2]
         IN  Norm(a[1] * (l \div a[2]) + b[1] * (l \div b[2]), l)

RNeg(a) == <<-a[1], a[2]>>

RSub(a, b) == RAdd(a, RNeg(b))

RMul(a, b) == Norm(a[1] * b[1], a[2] * b[2])

\* 1/a as numpy computes it: 1/0 is inf, 1/inf is 0, 1/nan is nan
RRecip(a) == Norm(a[2], a[1])

\* a/b as numpy computes it: no error, x/0 is inf, -inf or nan
RDiv(a, b) == RMul(a, RRecip(b))

RECURSIVE IPow(_, _)
IPow(n, k) == IF k = 0 THEN 1 ELSE n * IPow(n, k - 1)

\* a**k for a whole k >= 0: a fraction in lowest terms stays so under powers
RPow(a, k) == <<IPow(a[1], k), IPow(a[2], k)>>

RLt(a, b) == a[1] * b[2] < b[1] * a[2]

RLe(a, b) == a[1] * b[2] <= b[1] * a[2]

RECURSIVE RSumTo(_, _)
RSumTo(s, k) == IF k = 0 THEN Num(0) ELSE RAdd(RSumTo(s, k - 1), s[k])

\* np.sum and sum: the elements added up from the first
RSum(s) == RSumTo(s, Len(s))

\* np.mean: the sum over the length (nan for an empty array)
Mean(s) == RDiv(RSum(s), Num(Len(s)))

\* np.std(s, ddof=1) squared: the Bessel-corrected sample variance
SampleVar(s) ==
    LET m == Mean(s)
        sq == [k \in 1..Len(s) |-> RMul(RSub(s[k], m), RSub(s[k], m))]
    IN  RDiv(RSum(sq), Num(Len(s) - 1))

\* Python's 0-based indexing of a sequence
InRange(s, k) == 0 <= k /\ k < Len(s)

At(s, k) == s[k + 1]

\* ------------------------------------------------------------------------
\* The random source
\* ------------------------------------------------------------------------

\* np.random is a pseudo-random generator with one shared state: rng.  One
\* draw advances the state; the stream is fixed by the state at the call.
NextRng(s) == (5 * s + 3) % 16

RECURSIVE RngAfter(_, _)
RngAfter(s, k) == IF k = 0 THEN s ELSE NextRng(RngAfter(s, k - 1))

\* np.random.normal(scale=np.std(f, ddof=1), size=size) drawn from state s.
\* A draw is scale * z for a standard normal z.  The scale is a square root,
\* so a draw is kept as a whole number of units z in {-1, 0, 1}; it is 0
\* when the scale is 0 (all observations equal).
Normal(f, size, s) ==
    LET unit == IF SampleVar(f) = Num(0) THEN 0 ELSE 1
    IN  [k \in 1..size |-> Num(unit * ((RngAfter(s, k) % 3) - 1))]

\* ------------------------------------------------------------------------
\* discount_cash_flow
\* ------------------------------------------------------------------------

\* lines 20-21: a negative first observation is replaced by the mean
ReplaceFirst(f) ==
    IF RLt(At(f, 0), Num(0)) THEN [f EXCEPT ![1] = Mean(f)] ELSE f

\* line 22: ((fcf[n]/fcf[0])**(1.0/n)) - 1, kept as the ratio and the root
\* taken of it (the n-th root is not a fraction in general)
Cagr(f, n) == [ratio |-> RDiv(At(f, n), At(f, 0)), root |-> n]

\* line 26: d = (2.5+beta*(9.11-2.5))/100.0
Capm(beta) ==
    RDiv(RAdd(<<5, 2>>, RMul(beta, RSub(<<911, 100>>, <<5, 2>>))), Num(100))

\* line 34: the index of the observation the first projection starts from
StartIdxLast(f) == Len(f) - 1

StartIdx(f) == CurIdx

\* lines 34 and 35: start*((1+rate)**np.arange(1,11)) + noise
Projection(start, rate, eps) ==
    [k \in 1..Years |->
        RAdd(RMul(start, RPow(RAdd(Num(1), rate), k)), eps[k])]

\* lines 37 and 38: projtotal/((1+rate)**np.arange(1,21))
Discounted(total, rate) ==
    [k \in 1..Len(total) |->
        RDiv(total[k], RPow(RAdd(Num(1), rate), k))]

\* lines 39 and 41: np.sum(dis)/shares, a numpy division
PerShare(dis, shares) == RDiv(RSum(dis), shares)

\* lines 40 and 42: valnumbers[idx] = v
StoreFirst(arr, idx, v) == [arr EXCEPT ![1] = v]

Store(arr, idx, v) == [arr EXCEPT ![idx + 1] = v]

\* np.zeros(shape=100)
Zeros(k) == [j \in 1..k |-> Num(0)]

DcfLocalsUnchanged ==
    UNCHANGED <<proj, proj2, projtotal, noise, rng, adjusted_eps>>

\* line 20 on an empty history: fcf[0] is out of range
DcfRaiseEmpty ==
    /\ pc = "dcf_call"
    /\ ~InRange(args.fcf, 0)
    /\ pc' = "raised"
    /\ err' = "IndexError"
    /\ fcf' = args.fcf
    /\ UNCHANGED <<args, cagr, d, val1numbers, val2numbers, i, ret>>
    /\ DcfLocalsUnchanged

\* line 22 on a history of one entry: n = 0 and 1.0/n divides by zero
DcfRaiseZeroDivision ==
    /\ pc = "dcf_call"
    /\ InRange(args.fcf, 0)
    /\ Len(args.fcf) - 1 = 0
    /\ pc' = "raised"
    /\ err' = "ZeroDivisionError"
    /\ fcf' = ReplaceFirst(args.fcf)
    /\ UNCHANGED <<args, cagr, d, val1numbers, val2numbers, i, ret>>
    /\ DcfLocalsUnchanged

\* lines 18-26: the array, n, the first observation, cagr, the result
\* arrays and the CAPM rate
DcfSetup ==
    /\ pc = "dcf_call"
    /\ InRange(args.fcf, 0)
    /\ Len(args.fcf) - 1 # 0
    /\ fcf' = ReplaceFirst(args.fcf)
    /\ cagr' = Cagr(fcf', Len(args.fcf) - 1)
    /\ val1numbers' = Zeros(NumTrials)
    /\ val2numbers' = Zeros(NumTrials)
    /\ d' = Capm(args.beta)
    /\ i' = 0
    /\ pc' = "dcf_loop"
    /\ UNCHANGED <<args, ret, err>>
    /\ DcfLocalsUnchanged

\* line 34 when the start index is out of range
DcfRaiseIndex ==
    /\ pc = "dcf_loop"
    /\ i < NumTrials
    /\ ~InRange(fcf, StartIdx(fcf))
    /\ pc' = "raised"
    /\ err' = "IndexError"
    /\ UNCHANGED <<args, fcf, cagr, d, val1numbers, val2numbers, i, ret>>
    /\ DcfLocalsUnchanged

\* lines 34-42: one trial
DcfTrial ==
    /\ pc = "dcf_loop"
    /\ i < NumTrials
    /\ InRange(fcf, StartIdx(fcf))
    /\ noise' = <<Normal(fcf, Years, rng),
                  Normal(fcf, Years, RngAfter(rng, Years))>>
    /\ rng' = RngAfter(rng, 2 * Years)
    /\ proj' = Projection(At(fcf, StartIdx(fcf)), args.proj_rate1, noise'[1])
    /\ proj2' = Projection(At(proj', 9), args.proj_rate2, noise'[2])
    /\ projtotal' = proj' \o proj2'
    /\ val1numbers' = Store(val1numbers, i,
                            PerShare(Discounted(projtotal', args.discount),
                                     args.shares))
    /\ val2numbers' = Store(val2numbers, i,
                            PerShare(Discounted(projtotal', d), args.shares))
    /\ i' = i + 1
    /\ UNCHANGED <<pc, args, fcf, cagr, d, adjusted_eps, ret, err>>

\* line 43
DcfReturn ==
    /\ pc = "dcf_loop"
    /\ i = NumTrials
    /\ ret' = <<cagr, val1numbers, val2numbers>>
    /\ pc' = "done"
    /\ UNCHANGED <<args, fcf, cagr, d, val1numbers, val2numbers, i, err>>
    /\ DcfLocalsUnchanged

\* A history of length len: first, then 1s, then last.
History(len, first, last) ==
    [k \in 1..len |->
        Num(IF k = 1 THEN first ELSE IF k = len THEN last ELSE 1)]

\* of every length up to MaxLen: a flat history, and one that opens with a
\* loss year and ends above the rest
Histories ==
    {History(len, e[1], e[2]) :
        len \in 0..MaxLen, e \in {<<1, 1>>, <<-1, 2>>}}

\* growth and discount rates of 0% and 100%
Rates == {Num(0), Num(1)}

\* the chosen discount rate with a beta; the betas make the CAPM rate
\* 100% and 0%
DiscountAndBeta == {<<Num(0), <<9750, 661>>>>, <<Num(1), <<-250, 661>>>>}

ShareCounts == {Num(-1), Num(0), Num(2)}

Seeds == {0, 7}

DcfArgs ==
    {[fcf |-> h, proj_rate1 |-> r1, proj_rate2 |-> r2,
      discount |-> db[1], shares |-> sh, beta |-> db[2]] :
        h \in Histories, r1 \in Rates, r2 \in Rates,
        db \in DiscountAndBeta, sh \in ShareCounts}

DcfInit ==
    /\ pc = "dcf_call"
    /\ args \in DcfArgs
    /\ rng \in Seeds
    /\ fcf = None /\ cagr = None /\ d = None
    /\ val1numbers = None /\ val2numbers = None /\ i = 0
    /\ proj = None /\ proj2 = None /\ projtotal = None /\ noise = None
    /\ adjusted_eps = None /\ ret = None /\ err = None

DcfNext ==
    \/ DcfRaiseEmpty
    \/ DcfRaiseZeroDivision
    \/ DcfSetup
    \/ DcfRaiseIndex
    \/ DcfTrial
    \/ DcfReturn

SpecDcf == DcfInit /\ [][DcfNext]_vars

\* ------------------------------------------------------------------------
\* ben_graham_formula
\* ------------------------------------------------------------------------

\* line 59: np.mean(eps) if adjust else None
AdjustedEps(eps, adjust) == IF adjust THEN Mean(eps) ELSE None

OthersUnchanged ==
    UNCHANGED <<fcf, cagr, d, val1numbers, val2numbers, i,
                proj, proj2, projtotal, noise, rng>>

\* lines 58-59
GrahamAdjust ==
    /\ pc = "graham_call"
    /\ adjusted_eps' = AdjustedEps(args.eps, args.adjust)
    /\ pc' = "graham_const"
    /\ UNCHANGED <<args, ret, err>>
    /\ OthersUnchanged

\* line 60: const = 7 if safe.eps else 8.  Nothing defines safe (the
\* parameter is safe_eps), so reading it raises NameError on every call and
\* lines 61-68 never run.
GrahamRaiseName ==
    /\ pc = "graham_const"
    /\ pc' = "raised"
    /\ err' = "NameError"
    /\ UNCHANGED <<args, adjusted_eps, ret>>
    /\ OthersUnchanged

Booleans == {TRUE, FALSE}

GrahamArgs ==
    [eps : Histories, proj_growth : {Num(0), <<1, 10>>},
     risk_free_rate : {Num(0), <<1, 40>>},
     safe_eps : Booleans, safe_growth : Booleans, adjust : Booleans]

NoDcfLocals ==
    /\ fcf = None /\ cagr = None /\ d = None
    /\ val1numbers = None /\ val2numbers = None /\ i = 0
    /\ proj = None /\ proj2 = None /\ projtotal = None /\ noise = None
    /\ rng = 0

GrahamInit ==
    /\ pc = "graham_call"
    /\ args \in GrahamArgs
    /\ NoDcfLocals
    /\ adjusted_eps = None /\ ret = None /\ err = None

GrahamNext ==
    \/ GrahamAdjust
    \/ GrahamRaiseName

SpecGraham == GrahamInit /\ [][GrahamNext]_vars

\* ------------------------------------------------------------------------
\* div_discount_model
\* ------------------------------------------------------------------------

\* lines 84 and 85: start*((1.0+rate)**np.arange(1,period+1))
Dividends(start, rate, period) ==
    [k \in 1..period |-> RMul(start, RPow(RAdd(Num(1), rate), k))]

\* line 86: (proj2[len(proj2)-1]*(1+const_growth))/(discount - const_growth),
\* a numpy division
Terminal(last, const_growth, discount) ==
    RDiv(RMul(last, RAdd(Num(1), const_growth)), RSub(discount, const_growth))

\* lines 84-88 for periods of at least one year
DdmValue(a) ==
    LET proj1 == Dividends(a.current_div, a.div_growth_rate1, a.div_period1)
        p2 == Dividends(At(proj1, Len(proj1) - 1), a.div_growth_rate2,
                        a.div_period2)
        const == <<Terminal(At(p2, Len(p2) - 1), a.const_growth, a.discount)>>
    IN  RSum(Discounted(proj1 \o p2 \o const, a.discount))

\* lines 85 and 86 on an empty projection: proj1[len(proj1)-1] is proj1[-1],
\* out of range when the period is 0
DdmRaiseIndex ==
    /\ pc = "ddm_call"
    /\ ~(args.div_period1 >= 1 /\ args.div_period2 >= 1)
    /\ pc' = "raised"
    /\ err' = "IndexError"
    /\ UNCHANGED <<args, adjusted_eps, ret>>
    /\ OthersUnchanged

\* lines 84-89
DdmReturn ==
    /\ pc = "ddm_call"
    /\ args.div_period1 >= 1
    /\ args.div_period2 >= 1
    /\ ret' = DdmValue(args)
    /\ pc' = "done"
    /\ UNCHANGED <<args, adjusted_eps, err>>
    /\ OthersUnchanged

GrowthRates == {<<-1, 2>>, Num(0), Num(1)}

DiscountRates == {<<-1, 2>>, Num(0), Num(1), Num(2)}

DdmArgs ==
    [current_div : {Num(0), Num(1), Num(2)}, discount : DiscountRates,
     div_growth_rate1 : GrowthRates, div_period1 : 0..MaxPeriod,
     div_growth_rate2 : GrowthRates, div_period2 : 0..MaxPeriod,
     const_growth : GrowthRates]

DdmInit ==
    /\ pc = "ddm_call"
    /\ args \in DdmArgs
    /\ NoDcfLocals
    /\ adjusted_eps = None /\ ret = None /\ err = None

DdmNext ==
    \/ DdmRaiseIndex
    \/ DdmReturn

SpecDdm == DdmInit /\ [][DdmNext]_vars

\* ------------------------------------------------------------------------
\* gordon_growth_model
\* ------------------------------------------------------------------------

\* the value with the dividend not grown by one year
GordonValueNotGrown(current_div, const_growth, discount) ==
    RDiv(current_div, RSub(discount, const_growth))

\* line 100: (current_div*(1+const_growth))/(discount-const_growth)
GordonValue(current_div, const_growth, discount) ==
    RDiv(RMul(current_div, RAdd(Num(1), const_growth)),
         RSub(discount, const_growth))

\* line 100 with discount = const_growth: the arguments are plain Python
\* floats, and dividing by 0.0 raises
GordonRaiseZeroDivision ==
    /\ pc = "gordon_call"
    /\ RSub(args.discount, args.const_growth) = Num(0)
    /\ pc' = "raised"
    /\ err' = "ZeroDivisionError"
    /\ UNCHANGED <<args, adjusted_eps, ret>>
    /\ OthersUnchanged

\* line 100
GordonReturn ==
    /\ pc = "gordon_call"
    /\ RSub(args.discount, args.const_growth) # Num(0)
    /\ ret' = GordonValue(args.current_div, args.const_growth, args.discount)
    /\ pc' = "done"
    /\ UNCHANGED <<args, adjusted_eps, err>>
    /\ OthersUnchanged

\* the largest small dividend tried
MaxDividend == 3

GordonRates == {<<-1, 2>>, Num(0), <<3, 100>>, <<8, 100>>, Num(1)}

GordonArgs ==
    [current_div : {Num(k) : k \in (-1..MaxDividend) \cup {100}},
     const_growth : {Norm(r[1], r[2]) : r \in GordonRates},
     discount : {Norm(r[1], r[2]) : r \in GordonRates}]

GordonInit ==
    /\ pc = "gordon_call"
    /\ args \in GordonArgs
    /\ NoDcfLocals
    /\ adjusted_eps = None /\ ret = None /\ err = None

GordonNext ==
    \/ GordonRaiseZeroDivision
    \/ GordonReturn

SpecGordon == GordonInit /\ [][GordonNext]_vars

\* ------------------------------------------------------------------------
\* Properties
\* ------------------------------------------------------------------------

Returned == pc = "done"

Raised == pc = "raised"

\* C1 as stated: discount_cash_flow signals an error and returns no result
\* for every history of fewer than 11 entries (lengths 0 to 10).
C1_FewerThanElevenFails ==
    Len(args.fcf) < 11 => ~Returned /\ ret = None

\* C1, amended: discount_cash_flow signals an error and returns no result
\* for every history of fewer than 10 entries (lengths 0 to 9, the length-5
\* case included), whatever the other arguments are: no trial runs, nothing
\* is returned, and the call ends in IndexError or ZeroDivisionError.
C1_FewerThanTenFails ==
    Len(args.fcf) < 10 =>
        /\ pc \in {"dcf_call", "dcf_loop", "raised"}
        /\ ret = None
        /\ i = 0
        /\ (pc = "dcf_loop" => ~InRange(fcf, CurIdx))
        /\ (Raised => err \in {"IndexError", "ZeroDivisionError"})

C1_Witness ==
    Len(args.fcf) = 5 /\ Raised /\ err = "IndexError" /\ ret = None

\* C4: discount_cash_flow signals an error whenever shares <= 0; it never
\* returns per-share estimates computed by dividing by such a share count.
C4_NonPositiveSharesFail ==
    RLe(args.shares, Num(0)) => ~Returned /\ ret = None

\* the present value of the values of total, the k-th at period index k,
\* over the common denominator (1 + rate)^Len(total)
PresentValue(total, rate) ==
    RDiv(RSum([k \in 1..Len(total) |->
                  RMul(total[k], RPow(RAdd(Num(1), rate), Len(total) - k))]),
         RPow(RAdd(Num(1), rate), Len(total)))

\* C9: the two result arrays have exactly 100 elements each; trial i writes
\* exactly position i of both arrays, with that trial's sum of 20 discounted
\* projected values divided by shares, and leaves every other position as it
\* was; a position no trial has reached yet holds its initial zero; the call
\* returns the arrays only after trial 99, so that every position has been
\* written by its own trial.
C9_TrialWritesItsPosition ==
    [][/\ (pc = "dcf_loop" /\ pc' = "dcf_loop") =>
            /\ i \in 0..99 /\ i' = i + 1
            /\ Len(val1numbers') = 100 /\ Len(val2numbers') = 100
            /\ Len(projtotal') = 20
            /\ \A k \in 1..100 :
                   k # i + 1 => /\ val1numbers'[k] = val1numbers[k]
                                /\ val2numbers'[k] = val2numbers[k]
            /\ \A k \in (i + 1)..100 :
                   val1numbers[k] = Num(0) /\ val2numbers[k] = Num(0)
            /\ val1numbers'[i + 1] =
                   RDiv(PresentValue(projtotal', args.discount),
                        args.shares)
            /\ val2numbers'[i + 1] =
                   RDiv(PresentValue(projtotal', d), args.shares)
       /\ pc' = "done" =>
            /\ i = 100
            /\ ret'[2] = val1numbers /\ ret'[3] = val2numbers
            /\ Len(ret'[2]) = 100 /\ Len(ret'[3]) = 100]_vars

C9_Witness ==
    /\ Returned
    /\ RLt(Num(0), args.shares)
    /\ Len(ret[2]) = 100 /\ Len(ret[3]) = 100
    /\ ret[2][100] # Num(0) /\ ret[3][100] # Num(0)
    /\ ret[2][100] # ret[2][99]

\* C10: in every trial the first projection starts from the most recent
\* observation, the last element of the history, and the second projection
\* starts from the last value of the first.
C10_ProjectionStartsFromLast ==
    (pc = "dcf_loop" /\ i > 0) =>
        /\ proj = Projection(At(fcf, Len(fcf) - 1), args.proj_rate1, noise[1])
        /\ proj2 = Projection(At(proj, Len(proj) - 1), args.proj_rate2,
                              noise[2])

\* the Graham value for a given EPS figure, base constant and multiplier:
\* e * (base + mult * proj_growth * 100 * 4.4) / (risk_free_rate * 100)
GrahamFormula(e, base, mult, proj_growth, risk_free_rate) ==
    RDiv(RMul(e, RAdd(base, RMul(RMul(mult, RMul(proj_growth, Num(100))),
                                 <<44, 10>>))),
         RMul(risk_free_rate, Num(100)))

GrahamMultiplier == IF args.safe_growth THEN <<3, 2>> ELSE Num(2)

GrahamBase == IF args.safe_eps THEN Num(7) ELSE Num(8)

GrahamValid ==
    InRange(args.eps, EpsIdx) /\ args.risk_free_rate # Num(0)

\* C7: for a history of at least 11 entries and a non-zero risk-free rate
\* the call returns; with adjust set the adjusted value is the formula applied
\* to the mean of the EPS history, and without it the adjusted value is
\* absent.
C7_AdjustedValueUsesMean ==
    (GrahamValid /\ pc \in {"done", "raised"}) =>
        /\ Returned
        /\ ret[2] = IF args.adjust
                    THEN GrahamFormula(Mean(args.eps), GrahamBase,
                                       GrahamMultiplier, args.proj_growth,
                                       args.risk_free_rate)
                    ELSE None

\* C8: for a history of at least 11 entries and a non-zero risk-free rate
\* the value returned with safe_eps set is at most the value the same
\* arguments give with the base constant 8 of safe_eps not set.
C8_ConservativeBaseIsLower ==
    (GrahamValid /\ args.safe_eps /\ pc \in {"done", "raised"}) =>
        /\ Returned
        /\ RLe(ret[1], GrahamFormula(At(args.eps, EpsIdx), Num(8),
                                     GrahamMultiplier, args.proj_growth,
                                     args.risk_free_rate))

DdmPeriodsValid == args.div_period1 >= 1 /\ args.div_period2 >= 1

\* C2: div_discount_model called with discount <= const_growth and periods
\* of at least 1 fails with an error and never returns a value.
C2_DiscountNotAboveGrowthFails ==
    (DdmPeriodsValid /\ RLe(args.discount, args.const_growth)) =>
        ~Returned /\ ret = None

\* C6: with div_growth_rate1 = div_growth_rate2 = const_growth = g,
\* discount > g and periods of at least 1, div_discount_model returns the
\* Gordon growth perpetuity current_div * (1 + g) / (discount - g).
C6_EqualGrowthIsPerpetuity ==
    (/\ Returned
     /\ DdmPeriodsValid
     /\ args.div_growth_rate1 = args.const_growth
     /\ args.div_growth_rate2 = args.const_growth
     /\ RLt(args.const_growth, args.discount)) =>
        RMul(ret, RSub(args.discount, args.const_growth)) =
            RMul(args.current_div, RAdd(Num(1), args.const_growth))

\* C3: gordon_growth_model fails with an error whenever discount <=
\* const_growth, the equal case and the smaller case alike; it never returns
\* a number computed from a non-positive denominator.
C3_DiscountNotAboveGrowthFails ==
    RLe(args.discount, args.const_growth) => ~Returned /\ ret = None

====
